---- MODULE Spec2Model ----
(***************************************************************************)
(* Template synchronisation of faas-cli: pullTemplate, fetchTemplates,     *)
(* moveTemplates, writeTemplateMeta (commands/fetch_templates.go) and      *)
(* pullStackTemplates, getMissingTemplates                                 *)
(* (commands/template_pull_stack.go).                                      *)
(*                                                                         *)
(* A Go string is a sequence of tokens.  A token is a TLA+ string standing *)
(* for a run of characters that holds neither "#" nor "@"; refs are spelt  *)
(* one character per token so that prefixes and hex digits are computed.   *)
(***************************************************************************)
EXTENDS Integers, Sequences, FiniteSets, TLC

\* ------------------------------------------------------------------ bounds

\* Commands run one after the other against the same cache.
MaxRuns == 2
\* Length of the missing-template list handed to pullStackTemplates.
MaxMissing == 2
\* Number of functions of a stack declaration.
MaxFunctions == 2
MaxFiles == 2

\* ----------------------------------------------------------------- strings

\* const ShaPrefix = "sha-"
ShaPrefix == <<"s", "h", "a", "-">>

\* strings.HasPrefix
HasPrefix(s, prefix) ==
    /\ Len(s) >= Len(prefix)
    /\ SubSeq(s, 1, Len(prefix)) = prefix

\* strings.TrimPrefix
TrimPrefix(s, prefix) ==
    IF HasPrefix(s, prefix) THEN SubSeq(s, Len(prefix) + 1, Len(s)) ELSE s

\* Index of the first "#" of s, 0 when there is none.
IndexHash(s) ==
    IF \E i \in 1..Len(s) : s[i] = "#"
    THEN CHOOSE i \in 1..Len(s) : s[i] = "#" /\ \A j \in 1..(i - 1) : s[j] # "#"
    ELSE 0

\* strings.Cut(s, "#"): before, after, found
Cut(s) ==
    LET i == IndexHash(s) IN
    IF i = 0 THEN [before |-> s, after |-> <<>>, found |-> FALSE]
    ELSE [before |-> SubSeq(s, 1, i - 1), after |-> SubSeq(s, i + 1, Len(s)), found |-> TRUE]

HexDigits ==
    {"0", "1", "2", "3", "4", "5", "6", "7", "8", "9",
     "a", "b", "c", "d", "e", "f", "A", "B", "C", "D", "E", "F"}

MinShaLen == 7
MaxShaLen == 40

\* regexp `^[a-fA-F0-9]{7,40}$`
ValidShaFormat(targetCommit) ==
    /\ Len(targetCommit) >= MinShaLen
    /\ Len(targetCommit) <= MaxShaLen
    /\ \A i \in 1..Len(targetCommit) : targetCommit[i] \in HexDigits

\* ------------------------------------------------------- the world's names

RECURSIVE Repeat(_, _)
Repeat(c, n) == IF n = 0 THEN <<>> ELSE <<c>> \o Repeat(c, n - 1)

\* versioncontrol's pin character; a pinned remote is <remote>#<ref>
Pin(remote, ref) == remote \o <<"#">> \o ref

\* A directory that exists on the local filesystem and holds a git repository.
LocalRepo == <<"/r">>
\* A remote address that versioncontrol.IsGitRemote recognises.
Remote == <<"https://h/r.git">>
\* The address of Test_templatePull/InvalidUrlError, which it does not.
BadRemote == <<"user@host.xz:r.git">>

RefBranch == <<"v", "1">>
ShaGood == ShaPrefix \o <<"a", "b", "c", "1", "2", "3", "4">>
ShaShort == ShaPrefix \o <<"a", "b", "c", "1", "2", "3">>
ShaLong == ShaPrefix \o Repeat("a", MaxShaLen + 1)
ShaNotHex == ShaPrefix \o <<"a", "b", "c", "1", "2", "3", "g">>

\* The refs a command may name; <<>> is no ref.
Refs == {<<>>, RefBranch, ShaGood, ShaShort, ShaLong, ShaNotHex}

\* The repository arguments of `template pull`.
Repositories ==
    {LocalRepo, Remote, BadRemote, Pin(BadRemote, RefBranch)}
        \cup {Pin(Remote, r) : r \in Refs \ {<<>>}}

Py == <<"py">>
Node == <<"node">>
Languages == {Py, Node}

\* languageDest without the ref's suffix
DestNameUnsuffixed(language, refName) == language

\* languageDest's last path element: language, or language@refName
DestName(language, refName) ==
    IF refName # <<>> THEN language \o <<"@">> \o refName ELSE language

\* Every entry name the cache directory may hold, in os.ReadDir's order
\* (sorted by filename).
CacheNames ==
    <<Node, DestName(Node, ShaGood), DestName(Node, RefBranch),
      Py, DestName(Py, ShaGood), DestName(Py, RefBranch)>>

Range(s) == {s[i] : i \in 1..Len(s)}

\* ------------------------------------------------------------- filesystem

NoMeta == <<>>
Absent == [kind |-> "absent", files |-> "", meta |-> NoMeta]
RegularFile == [kind |-> "file", files |-> "", meta |-> NoMeta]
Dir(files, meta) == [kind |-> "dir", files |-> files, meta |-> meta]

\* A bundle some earlier, unrecorded pull left in the cache.
OldBundle == Dir("old", NoMeta)

\* What the clone materialises: whether the repository has a template root
\* ("template/") and the root's entries in os.ReadDir's order.
TreeDir(language) == [name |-> language, isDir |-> TRUE, files |-> language[1]]
TreeFile(language) == [name |-> language, isDir |-> FALSE, files |-> ""]
Tree(entries) == [hasTemplateDir |-> TRUE, entries |-> entries]
NoTemplateDir == [hasTemplateDir |-> FALSE, entries |-> <<>>]
Trees ==
    {NoTemplateDir, Tree(<<>>), Tree(<<TreeDir(Py)>>),
     Tree(<<TreeDir(Node), TreeDir(Py)>>), Tree(<<TreeFile(Node), TreeDir(Py)>>)}

\* The caches a command may find: py absent, a bundle or a regular file;
\* node and py@v1 absent or a bundle.
InitialCaches ==
    {[n \in Range(CacheNames) |->
        IF n = Py THEN p
        ELSE IF n = Node THEN q
        ELSE IF n = DestName(Py, RefBranch) THEN r
        ELSE Absent] :
     p \in {Absent, OldBundle, RegularFile},
     q \in {Absent, OldBundle},
     r \in {Absent, OldBundle}}

\* The digest versioncontrol.GetGitSHAFor resolves in the clone.
ResolvedSha(refName) ==
    IF HasPrefix(refName, ShaPrefix) THEN "sha:pinned" ELSE "sha:head"

\* ------------------------------------------------------------------ state

VARIABLES
    cache,               \* ./template: entry name -> Absent, RegularFile or Dir
    tree,                \* the template root the repository holds
    now,                 \* the wall clock time.Now reads
    pc,                  \* position of the running command
    runs,                \* commands started so far
    command,             \* "none", "pull", "stack" or "missing"
    caller,              \* who called pullTemplate: "cli" or "stack"
    repository,          \* pullTemplate's repository argument
    templateName,        \* pullTemplate's templateName argument
    overwriteTemplates,  \* the --overwrite flag
    pullDebug,           \* the --debug flag
    templateURL,         \* fetchTemplates' templateURL
    refName,             \* fetchTemplates' refName
    sha,                 \* the digest fetchTemplates resolved
    extractedPath,       \* the temporary directory: "none", "exists", "removed"
    existingLanguages,   \* moveTemplates' locals
    fetchedLanguages,
    protectedLanguages,
    entryIdx,            \* index of the next entry of extractedTemplates
    invoked,             \* external tools invoked by the running command
    result,              \* the error the command returned, Ok for nil
    cacheBefore,         \* the cache when the running pullTemplate was entered
    pulled,              \* repositories whose pull succeeded with a write, before this command
    lastPull,            \* the repository of the command before this one, when that
                         \* was a pull with --overwrite that returned nil
    missingTemplates,    \* pullStackTemplates' arguments
    templateSources,
    val,                 \* index of the name pullStackTemplates is at
    routed,              \* per name handled: where pullStackTemplates sent it
    functions,           \* getMissingTemplates' functions argument
    missing,             \* what getMissingTemplates returned
    secretFiles,         \* runSecretApply: the entries os.ReadDir found in .secrets
    existingSecrets,     \* what client.GetSecretList returns
    secretMap,           \* runSecretApply's map of the names that exist
    functionNamespace,   \* the --namespace flag
    trimSecret,          \* the --trim flag
    fileIdx,             \* index of the next entry of secretFiles
    gatewayCalls,        \* the file reads and gateway calls of the loop, with outcomes
    otherExisting,       \* a concurrent run's moveTemplates: its existingLanguages
    otherIdx,            \* ... the index of its next entry, 0 before its os.ReadDir
    otherFetched         \* ... its fetchedLanguages

world == <<cache, tree, now>>
control == <<pc, runs, command, caller>>
params == <<repository, templateName, overwriteTemplates, pullDebug>>
fetchLocals == <<templateURL, refName, sha, extractedPath>>
moveLocals == <<existingLanguages, fetchedLanguages, protectedLanguages, entryIdx>>
history == <<pulled, lastPull>>
ghost == <<invoked, result, cacheBefore, history>>
stackLocals == <<missingTemplates, templateSources, val, routed>>
missingLocals == <<functions, missing>>
secretLocals ==
    <<secretFiles, existingSecrets, secretMap, functionNamespace, trimSecret, fileIdx,
      gatewayCalls>>
otherLocals == <<otherExisting, otherIdx, otherFetched>>
vars == <<world, control, params, fetchLocals, moveLocals, ghost, stackLocals, missingLocals,
          secretLocals, otherLocals>>

Ok == "nil"

\* The command before this one was no overwriting pull that returned nil.
NoPull == <<"none">>

Init ==
    /\ cache \in InitialCaches
    /\ tree \in Trees
    /\ now = 0
    /\ pc = "idle"
    /\ runs = 0
    /\ command = "none"
    /\ caller = "cli"
    /\ repository = <<>>
    /\ templateName = <<>>
    /\ overwriteTemplates = FALSE
    /\ pullDebug = FALSE
    /\ templateURL = <<>>
    /\ refName = <<>>
    /\ sha = ""
    /\ extractedPath = "none"
    /\ existingLanguages = <<>>
    /\ fetchedLanguages = <<>>
    /\ protectedLanguages = <<>>
    /\ entryIdx = 0
    /\ invoked = <<>>
    /\ result = Ok
    /\ cacheBefore = cache
    /\ pulled = {}
    /\ lastPull = NoPull
    /\ missingTemplates = <<>>
    /\ templateSources = <<>>
    /\ val = 0
    /\ routed = <<>>
    /\ functions = <<>>
    /\ missing = <<>>
    /\ secretFiles = <<>>
    /\ existingSecrets = {}
    /\ secretMap = {}
    /\ functionNamespace = ""
    /\ trimSecret = TRUE
    /\ fileIdx = 0
    /\ gatewayCalls = <<>>
    /\ otherExisting = <<>>
    /\ otherIdx = 0
    /\ otherFetched = <<>>

\* ------------------------------------------------------------------ errors

ErrInvalidRepo == "the repository URL must be a valid git repo uri"
ErrRefName == "git check-ref-format: invalid tag or branch name"
ErrNoURL == "pass valid templateURL"
ErrMkdirTemp == "unable to create temporary directory"
ErrClone == "error invoking git clone"
ErrInvalidSha == "invalid SHA format"
ErrCheckout == "error checking out ref"
ErrGitLog == "error executing git log"
ErrGetSha == "GetGitSHAFor failed"
ErrGetwd == "can't get current working directory"
ErrMkdirCache == "error creating template directory"
ErrReadDir == "unable to read directory"
ErrTemplateYml == "can't find template.yml in"
ErrNoTemplates == "can't find templates in"
ErrCopyFiles == "CopyFiles failed"
ErrWriteMeta == "error writing template meta"
ErrProtected == "unable to overwrite the following"
ErrStore == "template store pull failed"
ErrReadStack == "can't read file"
ErrNoTemplateRepos == "can't read configuration: no template repos currently configured"

\* Errors that an external tool or the operating system raised.
ToolErrors ==
    {ErrRefName, ErrMkdirTemp, ErrClone, ErrCheckout, ErrGitLog, ErrGetSha, ErrGetwd,
     ErrMkdirCache, ErrReadDir, ErrTemplateYml, ErrNoTemplates, ErrCopyFiles,
     ErrWriteMeta, ErrStore}

\* -------------------------------------------------------- versioncontrol

\* isValidFilesystemPath: os.Stat(path) succeeds
isValidFilesystemPath(path) == path = LocalRepo

\* versioncontrol.IsGitRemote
IsGitRemote(url) == url = Remote

\* versioncontrol.IsPinnedGitRemote: a recognised remote followed by #<ref>
IsPinnedGitRemote(url) ==
    LET c == Cut(url) IN c.found /\ IsGitRemote(c.before) /\ c.after # <<>>

\* versioncontrol.ParsePinnedRemote: split at the first "#"
ParsePinnedRemote(repoURL) ==
    LET c == Cut(repoURL) IN
    IF c.found THEN [remoteURL |-> c.before, refName |-> c.after]
    ELSE [remoteURL |-> repoURL, refName |-> <<>>]

\* ------------------------------------------------------------ pullTemplate

\* The state a command starts from: the frame of the last one is dropped.
StartCommand(name) ==
    /\ pc = "idle"
    /\ runs' = runs + 1
    /\ now' = now + 1
    /\ command' = name
    /\ pulled' = IF command = "pull" /\ result = Ok /\ fetchedLanguages # <<>>
                 THEN pulled \cup {repository} ELSE pulled
    /\ lastPull' = IF command = "pull" /\ result = Ok /\ overwriteTemplates
                   THEN repository ELSE NoPull
    /\ templateURL' = <<>>
    /\ refName' = <<>>
    /\ sha' = ""
    /\ extractedPath' = "none"
    /\ existingLanguages' = <<>>
    /\ fetchedLanguages' = <<>>
    /\ protectedLanguages' = <<>>
    /\ entryIdx' = 0
    /\ invoked' = <<>>
    /\ result' = Ok
    /\ cacheBefore' = cache
    /\ UNCHANGED <<cache, tree>>

\* `faas-cli template pull <repository> --overwrite=.. --debug=..`
TemplatePull(repo, overwrite, debug) ==
    /\ runs < MaxRuns
    /\ StartCommand("pull")
    /\ pc' = "pullTemplate"
    /\ caller' = "cli"
    /\ repository' = repo
    /\ templateName' = <<>>
    /\ overwriteTemplates' = overwrite
    /\ pullDebug' = debug
    /\ UNCHANGED <<stackLocals, missingLocals, secretLocals, otherLocals>>

\* return err, to the command line or to pullStackTemplates' loop
Return(err) ==
    /\ result' = err
    /\ pc' = IF caller = "stack" THEN "stackResume" ELSE "idle"

\* pullTemplate's repository after the "#" rules of its first lines
PinnedRepository(repo, tname) ==
    IF ~isValidFilesystemPath(repo) /\ ~Cut(repo).found /\ Cut(tname).found
    THEN repo \o <<"#">> \o Cut(tname).after
    ELSE repo

BaseRepository(repo) ==
    IF ~isValidFilesystemPath(repo) /\ Cut(repo).found THEN Cut(repo).before ELSE repo

\* pullTemplate without its check of the repository
ValidRepositoryUnchecked(repo, base) == TRUE

\* pullTemplate's check: repository is a path that exists, or baseRepository
\* is a git remote, plain or pinned
ValidRepository(repo, base) ==
    ~(~isValidFilesystemPath(repo) /\ ~IsGitRemote(base) /\ ~IsPinnedGitRemote(base))

\* pullTemplate up to its call of fetchTemplates
PullTemplate ==
    /\ pc = "pullTemplate"
    /\ LET repo == PinnedRepository(repository, templateName)
           base == BaseRepository(repository)
           parsed == ParsePinnedRemote(repo)
           checked == parsed.refName # <<>> /\ ~HasPrefix(parsed.refName, ShaPrefix)
       IN
       IF ~ValidRepository(repo, base)
       THEN /\ Return(ErrInvalidRepo)
            /\ UNCHANGED <<templateURL, refName, invoked>>
       ELSE \E ok \in BOOLEAN :
            /\ checked \/ ok
            /\ invoked' = IF checked THEN Append(invoked, <<"GitCheckRefName", parsed.refName>>)
                          ELSE invoked
            /\ IF checked /\ ~ok
               THEN Return(ErrRefName) /\ UNCHANGED <<templateURL, refName>>
               ELSE /\ pc' = "fetchTemplates"
                    /\ templateURL' = parsed.remoteURL
                    /\ refName' = parsed.refName
                    /\ UNCHANGED result
    /\ UNCHANGED <<world, runs, command, caller, params, sha, extractedPath, moveLocals,
                   cacheBefore, history, stackLocals, missingLocals, secretLocals, otherLocals>>

\* ---------------------------------------------------------- fetchTemplates

\* fetchTemplates returning without its deferred os.RemoveAll
FetchReturnKeepsTempDir(err, calls) ==
    /\ extractedPath' = extractedPath
    /\ invoked' = invoked \o calls
    /\ Return(err)

\* return err from fetchTemplates after os.MkdirTemp succeeded: the deferred
\* os.RemoveAll(extractedPath) runs unless --debug; `calls` are the tools this
\* step invoked before returning.
FetchReturn(err, calls) ==
    /\ extractedPath' = IF pullDebug THEN extractedPath ELSE "removed"
    /\ invoked' = invoked \o calls \o
                  (IF pullDebug THEN <<>> ELSE <<<<"os.RemoveAll", <<>>>>>>)
    /\ Return(err)

\* fetchTemplates: the templateURL check and os.MkdirTemp
FetchStart ==
    /\ pc = "fetchTemplates"
    /\ IF Len(templateURL) = 0
       THEN Return(ErrNoURL) /\ UNCHANGED <<extractedPath, invoked>>
       ELSE \E ok \in BOOLEAN :
            /\ invoked' = Append(invoked, <<"os.MkdirTemp", <<>>>>)
            /\ IF ok
               THEN extractedPath' = "exists" /\ pc' = "clone" /\ UNCHANGED result
               ELSE Return(ErrMkdirTemp) /\ UNCHANGED extractedPath
    /\ UNCHANGED <<world, runs, command, caller, params, templateURL, refName, sha,
                   moveLocals, cacheBefore, history, stackLocals, missingLocals, secretLocals, otherLocals>>

\* The default clone used for a sha- ref as for no ref
CloneCommandShallowForSha(ref) ==
    IF Len(ref) > 0 /\ ~HasPrefix(ref, ShaPrefix) THEN "GitCloneBranch" ELSE "GitCloneDefault"

\* The clone command fetchTemplates picks from refName.
CloneCommand(ref) ==
    IF Len(ref) > 0
    THEN IF HasPrefix(ref, ShaPrefix) THEN "GitCloneFullDepth" ELSE "GitCloneBranch"
    ELSE "GitCloneDefault"

\* args["refname"], set for the branch clone only
CloneRefname(ref) ==
    IF Len(ref) > 0 /\ ~HasPrefix(ref, ShaPrefix) THEN ref ELSE <<>>

\* fetchTemplates: cmd.Invoke(".", args)
Clone ==
    /\ pc = "clone"
    /\ \E ok \in BOOLEAN :
        LET call == <<CloneCommand(refName), templateURL, CloneRefname(refName)>> IN
        IF ok
        THEN /\ invoked' = Append(invoked, call)
             /\ pc' = "checkout"
             /\ UNCHANGED <<extractedPath, result>>
        ELSE FetchReturn(ErrClone, <<call>>)
    /\ UNCHANGED <<world, runs, command, caller, params, templateURL, refName, sha,
                   moveLocals, cacheBefore, history, stackLocals, missingLocals, secretLocals, otherLocals>>

\* fetchTemplates: the SHA format check and `git checkout` of a sha- ref
Checkout ==
    /\ pc = "checkout"
    /\ LET targetCommit == TrimPrefix(refName, ShaPrefix) IN
       IF Len(refName) > 0 /\ HasPrefix(refName, ShaPrefix)
       THEN IF ~ValidShaFormat(targetCommit)
            THEN FetchReturn(ErrInvalidSha, <<>>)
            ELSE \E ok \in BOOLEAN :
                 LET call == <<"git checkout", targetCommit>> IN
                 IF ok
                 THEN /\ invoked' = Append(invoked, call)
                      /\ pc' = "resolve"
                      /\ UNCHANGED <<extractedPath, result>>
                 ELSE FetchReturn(ErrCheckout, <<call>>)
       ELSE /\ pc' = "resolve"
            /\ UNCHANGED <<extractedPath, invoked, result>>
    /\ UNCHANGED <<world, runs, command, caller, params, templateURL, refName, sha,
                   moveLocals, cacheBefore, history, stackLocals, missingLocals, secretLocals, otherLocals>>

\* fetchTemplates: `git log` under FAAS_DEBUG=1, versioncontrol.GetGitSHAFor,
\* os.Getwd and the creation of ./template
ResolveSha ==
    /\ pc = "resolve"
    /\ \E faasDebug \in BOOLEAN, err \in {Ok, ErrGitLog, ErrGetSha, ErrGetwd, ErrMkdirCache} :
        LET getSha == <<<<"GetGitSHAFor", <<>>>>>> IN
        /\ err = ErrGitLog => faasDebug
        /\ IF err = Ok
           THEN /\ sha' = ResolvedSha(refName)
                /\ invoked' = invoked \o getSha
                /\ pc' = "moveTemplates"
                /\ UNCHANGED <<extractedPath, result>>
           ELSE /\ FetchReturn(err, IF err = ErrGitLog THEN <<>> ELSE getSha)
                /\ UNCHANGED sha
    /\ UNCHANGED <<world, runs, command, caller, params, templateURL, refName,
                   moveLocals, cacheBefore, history, stackLocals, missingLocals, secretLocals, otherLocals>>

\* ----------------------------------------------------------- moveTemplates

\* slices.Contains
Contains(list, x) == \E i \in 1..Len(list) : list[i] = x

\* The names of the directories of the cache, in os.ReadDir's order.
ExistingDirs(c) == SelectSeq(CacheNames, LAMBDA n : c[n].kind = "dir")

\* canWriteLanguage asked about the name the bundle is written to
canWriteLanguageOfDestName(existing, language, overwriteTemplate) ==
    IF overwriteTemplate THEN TRUE ELSE ~Contains(existing, DestName(language, refName))

\* canWriteLanguage asking the cache as it is now, not the listing read before
canWriteLanguageOfCacheNow(existing, language, overwriteTemplate) ==
    IF overwriteTemplate THEN TRUE ELSE ~Contains(ExistingDirs(cache), language)

\* canWriteLanguage without its overwrite branch
canWriteLanguageNoOverwrite(existing, language, overwriteTemplate) ==
    ~Contains(existing, language)

\* canWriteLanguage
canWriteLanguage(existing, language, overwriteTemplate) ==
    IF overwriteTemplate THEN TRUE ELSE ~Contains(existing, language)

\* A TemplateMeta whose WrittenAt is left at its zero value
TemplateMetaUnstamped(repo, ref, digest, writtenAt) ==
    [repository |-> repo, ref_name |-> ref, sha |-> digest, written_at |-> 0]

\* The TemplateMeta that writeTemplateMeta marshals into meta.json
TemplateMeta(repo, ref, digest, writtenAt) ==
    [repository |-> repo, ref_name |-> ref, sha |-> digest, written_at |-> writtenAt]

\* writeTemplateMeta returning nil without having written meta.json
writeTemplateMetaSkipped(c, languageDest, repo, ref, digest) == c

\* writeTemplateMeta leaving the digest out of the record
writeTemplateMetaNoSha(c, languageDest, repo, ref, digest) ==
    [c EXCEPT ![languageDest].meta = <<TemplateMeta(repo, ref, "", now)>>]

\* writeTemplateMeta: os.WriteFile(<languageDest>/meta.json)
writeTemplateMeta(c, languageDest, repo, ref, digest) ==
    [c EXCEPT ![languageDest].meta = <<TemplateMeta(repo, ref, digest, now)>>]

\* builder.CopyFiles(languageSrc, languageDest): the destination becomes the
\* copy of the source directory.
CopyFiles(c, entry, languageDest) ==
    [c EXCEPT ![languageDest] = Dir(entry.files, NoMeta)]

\* builder.CopyFiles cannot make a directory where a regular file is.  A copy
\* that fails leaves the destination as it was.
CopyFilesFails(c, languageDest) == c[languageDest].kind = "file"

\* moveTemplates: the two os.ReadDir calls and the loop over the cache's entries
MoveRead ==
    /\ pc = "moveTemplates"
    /\ \E err \in {Ok, ErrReadDir, ErrTemplateYml} :
        /\ (err = ErrTemplateYml) => ExistingDirs(cache) # <<>>
        /\ IF err # Ok
           THEN FetchReturn(err, <<>>) /\ UNCHANGED <<existingLanguages, entryIdx>>
           ELSE IF ~tree.hasTemplateDir
           THEN FetchReturn(ErrNoTemplates, <<>>) /\ UNCHANGED <<existingLanguages, entryIdx>>
           ELSE /\ existingLanguages' = ExistingDirs(cache)
                /\ entryIdx' = 1
                /\ pc' = "moveEntry"
                /\ UNCHANGED <<extractedPath, invoked, result>>
    /\ UNCHANGED <<world, runs, command, caller, params, templateURL, refName, sha,
                   fetchedLanguages, protectedLanguages, cacheBefore, history,
                   stackLocals, missingLocals, secretLocals, otherLocals>>

\* The loop going on after a meta.json that could not be written
ReturnsErrorOfCopyOnly(err) == err = ErrCopyFiles

\* moveTemplates: `if err := ...; err != nil { return nil, nil, err }` after
\* builder.CopyFiles and after writeTemplateMeta
ReturnsError(err) == err # Ok

\* The loop taking every entry of the template root for a bundle
IsDirOrFile(entry) == TRUE

\* moveTemplates: entry.IsDir(), else `continue`
IsDir(entry) == entry.isDir

\* moveTemplates: one turn of the loop over extractedTemplates
MoveEntry ==
    /\ pc = "moveEntry"
    /\ entryIdx <= Len(tree.entries)
    /\ LET entry == tree.entries[entryIdx]
           language == entry.name
           languageDest == DestName(language, refName)
           copied == CopyFiles(cache, entry, languageDest)
       IN
       IF ~IsDir(entry)
       THEN /\ entryIdx' = entryIdx + 1
            /\ UNCHANGED <<cache, pc, fetchedLanguages, protectedLanguages,
                           extractedPath, invoked, result>>
       ELSE IF canWriteLanguage(existingLanguages, language, overwriteTemplates)
       THEN \E err \in {Ok, ErrCopyFiles, ErrWriteMeta} :
            /\ CopyFilesFails(cache, languageDest) => err = ErrCopyFiles
            /\ fetchedLanguages' = Append(fetchedLanguages, languageDest)
            /\ UNCHANGED protectedLanguages
            /\ cache' = IF err = ErrCopyFiles THEN cache
                        ELSE IF err = ErrWriteMeta THEN copied
                        ELSE writeTemplateMeta(copied, languageDest, templateURL, refName, sha)
            /\ IF ~ReturnsError(err)
               THEN /\ entryIdx' = entryIdx + 1
                    /\ invoked' = invoked \o <<<<"CopyFiles", languageDest>>,
                                               <<"os.WriteFile", languageDest>>>>
                    /\ UNCHANGED <<pc, extractedPath, result>>
               ELSE /\ FetchReturn(err,
                        IF err = ErrCopyFiles THEN <<<<"CopyFiles", languageDest>>>>
                        ELSE <<<<"CopyFiles", languageDest>>, <<"os.WriteFile", languageDest>>>>)
                    /\ UNCHANGED entryIdx
       ELSE /\ protectedLanguages' = Append(protectedLanguages, languageDest)
            /\ entryIdx' = entryIdx + 1
            /\ UNCHANGED <<cache, pc, fetchedLanguages, extractedPath, invoked, result>>
    /\ UNCHANGED <<tree, now, runs, command, caller, params, templateURL, refName, sha,
                   existingLanguages, cacheBefore, history, stackLocals, missingLocals, secretLocals, otherLocals>>

\* fetchTemplates without its check of protectedLanguages
FetchFinishIgnoringProtected ==
    /\ pc = "moveEntry"
    /\ entryIdx > Len(tree.entries)
    /\ FetchReturn(Ok, <<>>)
    /\ UNCHANGED <<world, runs, command, caller, params, templateURL, refName, sha,
                   moveLocals, cacheBefore, history, stackLocals, missingLocals, secretLocals, otherLocals>>

\* moveTemplates returns its two lists; fetchTemplates turns a protected
\* language into an error and otherwise prints what it wrote.
FetchFinish ==
    /\ pc = "moveEntry"
    /\ entryIdx > Len(tree.entries)
    /\ IF Len(protectedLanguages) > 0
       THEN FetchReturn(ErrProtected, <<>>)
       ELSE FetchReturn(Ok, <<>>)
    /\ UNCHANGED <<world, runs, command, caller, params, templateURL, refName, sha,
                   moveLocals, cacheBefore, history, stackLocals, missingLocals, secretLocals, otherLocals>>

\* ------------------------------------------------------ pullStackTemplates

\* stack.TemplateSource
TemplateSource(name, source) == [Name |-> name, Source |-> source]

\* A template name that carries a ref, as pullTemplate's templateName may.
PyAtBranch == <<"py", "#">> \o RefBranch

TemplateNames == {Py, Node, PyAtBranch}

\* The configuration.templates lists of a stack file.
SourceLists ==
    {<<>>,
     <<TemplateSource(Py, Remote)>>,
     <<TemplateSource(Py, Remote), TemplateSource(Node, Remote)>>,
     <<TemplateSource(Py, <<>>), TemplateSource(Node, Remote)>>,
     <<TemplateSource(Py, BadRemote), TemplateSource(Node, Remote)>>,
     <<TemplateSource(Py, <<>>), TemplateSource(Py, Remote)>>,
     <<TemplateSource(Node, Remote), TemplateSource(Node, <<>>)>>,
     <<TemplateSource(PyAtBranch, Remote), TemplateSource(Node, <<>>)>>}

\* All sequences over S of a length up to n.
SeqsUpTo(S, n) == UNION {[1..k -> S] : k \in 0..n}

\* var templateConfig stack.TemplateSource: the zero value
ZeroTemplateSource == TemplateSource(<<>>, <<>>)

\* The inner loop without its break: the last source whose Name is name
TemplateConfigForLast(sources, name) ==
    IF \E i \in 1..Len(sources) : sources[i].Name = name
    THEN sources[CHOOSE i \in 1..Len(sources) :
                    /\ sources[i].Name = name
                    /\ \A j \in (i + 1)..Len(sources) : sources[j].Name # name]
    ELSE ZeroTemplateSource

\* pullStackTemplates' inner loop: the first source whose Name is name
TemplateConfigFor(sources, name) ==
    IF \E i \in 1..Len(sources) : sources[i].Name = name
    THEN sources[CHOOSE i \in 1..Len(sources) :
                    /\ sources[i].Name = name
                    /\ \A j \in 1..(i - 1) : sources[j].Name # name]
    ELSE ZeroTemplateSource

\* The templates the central store can resolve (runTemplateStorePull); a
\* store pull that succeeds extracts the template into the cache.
StoreHas(name) == name \in Languages

\* pullStackTemplates(missingTemplates, templateSources, cmd)
PullStackTemplates(names, sources, overwrite, debug) ==
    /\ runs = 0
    /\ StartCommand("stack")
    /\ pc' = "stackLoop"
    /\ caller' = "stack"
    /\ missingTemplates' = names
    /\ templateSources' = sources
    /\ val' = 1
    /\ routed' = <<>>
    /\ repository' = <<>>
    /\ templateName' = <<>>
    /\ overwriteTemplates' = overwrite
    /\ pullDebug' = debug
    /\ UNCHANGED <<missingLocals, secretLocals, otherLocals>>

\* One turn of pullStackTemplates' loop over missingTemplates, up to the
\* return of runTemplateStorePull or the call of pullTemplate.
StackTurn ==
    /\ pc = "stackLoop"
    /\ val <= Len(missingTemplates)
    /\ LET name == missingTemplates[val]
           templateConfig == TemplateConfigFor(templateSources, name)
       IN
       IF templateConfig.Source = <<>>
       THEN \E ok \in BOOLEAN :
            LET err == IF ok /\ StoreHas(name) THEN Ok ELSE ErrStore IN
            /\ routed' = Append(routed, [name |-> name, via |-> "store",
                                         source |-> <<>>, err |-> err])
            /\ invoked' = Append(invoked, <<"runTemplateStorePull", name>>)
            /\ cache' = IF err = Ok THEN [cache EXCEPT ![name] = Dir("store", NoMeta)]
                        ELSE cache
            /\ result' = err
            /\ IF err = Ok
               THEN val' = val + 1 /\ UNCHANGED pc
               ELSE pc' = "idle" /\ UNCHANGED val
            /\ UNCHANGED <<repository, templateName, fetchLocals, moveLocals, cacheBefore>>
       ELSE /\ routed' = Append(routed, [name |-> name, via |-> "pullTemplate",
                                         source |-> templateConfig.Source, err |-> Ok])
            /\ repository' = templateConfig.Source
            /\ templateName' = templateConfig.Name
            /\ pc' = "pullTemplate"
            /\ templateURL' = <<>>
            /\ refName' = <<>>
            /\ sha' = ""
            /\ extractedPath' = "none"
            /\ existingLanguages' = <<>>
            /\ fetchedLanguages' = <<>>
            /\ protectedLanguages' = <<>>
            /\ entryIdx' = 0
            /\ cacheBefore' = cache
            /\ UNCHANGED <<cache, val, invoked, result>>
    /\ UNCHANGED <<tree, now, runs, command, caller, overwriteTemplates, pullDebug, history,
                   missingTemplates, templateSources, missingLocals, secretLocals, otherLocals>>

\* The loop going on to the next name after a failed pullTemplate
StackResumeContinues ==
    /\ pc = "stackResume"
    /\ routed' = [routed EXCEPT ![val].err = result]
    /\ pc' = "stackLoop"
    /\ val' = val + 1
    /\ UNCHANGED <<world, runs, command, caller, params, fetchLocals, moveLocals, ghost,
                   missingTemplates, templateSources, missingLocals, secretLocals, otherLocals>>

\* pullTemplate returned to pullStackTemplates: `return err`, or the next name
StackResume ==
    /\ pc = "stackResume"
    /\ routed' = [routed EXCEPT ![val].err = result]
    /\ IF result # Ok
       THEN pc' = "idle" /\ UNCHANGED val
       ELSE pc' = "stackLoop" /\ val' = val + 1
    /\ UNCHANGED <<world, runs, command, caller, params, fetchLocals, moveLocals, ghost,
                   missingTemplates, templateSources, missingLocals, secretLocals, otherLocals>>

\* pullStackTemplates: the loop is over, return nil
StackDone ==
    /\ pc = "stackLoop"
    /\ val > Len(missingTemplates)
    /\ pc' = "idle"
    /\ result' = Ok
    /\ UNCHANGED <<world, runs, command, caller, params, fetchLocals, moveLocals,
                   invoked, cacheBefore, history, stackLocals, missingLocals, secretLocals, otherLocals>>

\* ----------------------------------------------------- getMissingTemplates

\* os.Stat(templatePath) fails with os.IsNotExist
StatNotExist(c, name) == name \notin DOMAIN c \/ c[name].kind = "absent"

\* A stack file's functions: function name -> lang
FunctionNames == 1..MaxFunctions
FunctionMaps == UNION {[S -> Languages] : S \in SUBSET FunctionNames}

\* The orders in which `range functions` may visit a Go map.
MapOrders(fns) ==
    {order \in [1..Cardinality(DOMAIN fns) -> DOMAIN fns] :
        \A i, j \in DOMAIN order : order[i] = order[j] => i = j}

\* getMissingTemplates, its map visited in `order`
RECURSIVE getMissingTemplates(_, _, _)
getMissingTemplates(fns, order, c) ==
    IF order = <<>> THEN <<>>
    ELSE LET language == fns[Head(order)]
             rest == getMissingTemplates(fns, Tail(order), c)
         IN IF StatNotExist(c, language) THEN <<language>> \o rest ELSE rest

\* A caller asks which templates of its stack file are missing.
GetMissingTemplates(fns, order) ==
    /\ runs < MaxRuns
    /\ StartCommand("missing")
    /\ functions' = fns
    /\ missing' = getMissingTemplates(fns, order, cache)
    /\ UNCHANGED <<pc, caller, params, stackLocals, secretLocals, otherLocals>>

\* ---------------------------------------------------- runTemplatePullStack

\* `faas-cli template pull stack`: the stack file declares `fns` and
\* configures `sources`.
TemplatePullStack(fns, sources, overwrite, debug) ==
    /\ runs = 0
    /\ StartCommand("pull stack")
    /\ pc' = "loadTemplateConfig"
    /\ caller' = "stack"
    /\ functions' = fns
    /\ templateSources' = sources
    /\ missingTemplates' = <<>>
    /\ val' = 0
    /\ routed' = <<>>
    /\ repository' = <<>>
    /\ templateName' = <<>>
    /\ overwriteTemplates' = overwrite
    /\ pullDebug' = debug
    /\ UNCHANGED <<missing, secretLocals, otherLocals>>

\* runTemplatePullStack: loadTemplateConfig, then
\* pullStackTemplates([]string{}, templatesConfig, cmd)
LoadTemplateConfig ==
    /\ pc = "loadTemplateConfig"
    /\ \E readable \in BOOLEAN :
        IF ~readable
        THEN result' = ErrReadStack /\ pc' = "idle" /\ UNCHANGED <<missingTemplates, val>>
        ELSE IF Len(templateSources) = 0
        THEN result' = ErrNoTemplateRepos /\ pc' = "idle" /\ UNCHANGED <<missingTemplates, val>>
        ELSE /\ missingTemplates' = <<>>
             /\ val' = 1
             /\ pc' = "stackLoop"
             /\ UNCHANGED result
    /\ UNCHANGED <<world, runs, command, caller, params, fetchLocals, moveLocals,
                   invoked, cacheBefore, history, templateSources, routed, missingLocals, secretLocals, otherLocals>>

PullSteps ==
    \/ PullTemplate
    \/ FetchStart
    \/ Clone
    \/ Checkout
    \/ ResolveSha
    \/ MoveRead
    \/ MoveEntry
    \/ FetchFinish

\* The command line runs `template pull` with any arguments.
RunTemplatePull ==
    /\ pc = "idle"
    /\ \E repo \in Repositories, overwrite \in BOOLEAN, debug \in BOOLEAN :
         TemplatePull(repo, overwrite, debug)

Next ==
    \/ RunTemplatePull
    \/ PullSteps

Spec == Init /\ [][Next]_vars

\* A caller hands pullStackTemplates any list of names and any sources.
RunPullStackTemplates ==
    /\ pc = "idle"
    /\ runs = 0
    /\ \E names \in SeqsUpTo(TemplateNames, MaxMissing), sources \in SourceLists,
          overwrite \in BOOLEAN, debug \in BOOLEAN :
         PullStackTemplates(names, sources, overwrite, debug)

\* The command line runs `template pull stack` on any stack file.
RunTemplatePullStack ==
    /\ pc = "idle"
    /\ runs = 0
    /\ \E fns \in FunctionMaps, sources \in SourceLists,
          overwrite \in BOOLEAN, debug \in BOOLEAN :
         TemplatePullStack(fns, sources, overwrite, debug)

StackNext ==
    \/ RunPullStackTemplates
    \/ RunTemplatePullStack
    \/ LoadTemplateConfig
    \/ StackTurn
    \/ StackResume
    \/ StackDone
    \/ PullSteps

StackSpec == Init /\ [][StackNext]_vars

\* A caller hands getMissingTemplates any functions; Go picks the map's order.
RunGetMissingTemplates ==
    /\ pc = "idle"
    /\ \E fns \in FunctionMaps : \E order \in MapOrders(fns) : GetMissingTemplates(fns, order)

MissingNext == RunGetMissingTemplates

MissingSpec == Init /\ [][MissingNext]_vars

\* ---------------------------------------------------------- runSecretApply

ErrAuth == "proxy.NewCLIAuth failed"
ErrClient == "proxy.NewClient failed"
ErrSecretsFolder == "can't determine secrets folder"
ErrNoSecretsDir == "secrets directory does not exist"
ErrReadSecretsDir == "failed to read secrets directory"
ErrSecretList == "failed to get secret list"

\* The HTTP statuses client.CreateSecret may return.
StatusCreated == 201
StatusConflict == 409
StatusInternalServerError == 500
Statuses == {StatusCreated, StatusConflict, StatusInternalServerError}

Whitespace == {" "}

\* strings.TrimSpace
RECURSIVE TrimSpace(_)
TrimSpace(str) ==
    IF str = <<>> THEN <<>>
    ELSE IF Head(str) \in Whitespace THEN TrimSpace(Tail(str))
    ELSE IF str[Len(str)] \in Whitespace THEN TrimSpace(SubSeq(str, 1, Len(str) - 1))
    ELSE str

\* The entry names .secrets may hold, in os.ReadDir's order.
SecretNames == <<"Bad_Name", "api-key", "db-password">>

\* validateSecretName: lower-case letters, digits, "-" and "."
validateSecretName(secretName) == secretName \in {"api-key", "db-password"}

\* What a file of .secrets may hold.
Contents == {<<>>, <<" ">>, <<"v">>, <<" ", "v", " ">>}

SecretDir(name) == [name |-> name, isDir |-> TRUE, data |-> <<>>]
SecretFile(name, data) == [name |-> name, isDir |-> FALSE, data |-> data]
SecretEntries(name) == {SecretDir(name)} \cup {SecretFile(name, d) : d \in Contents}

\* What os.ReadDir may return: up to MaxFiles entries, their names distinct
\* and in SecretNames' order.
SecretFolders ==
    UNION {{fs \in [1..k -> UNION {SecretEntries(SecretNames[i]) : i \in 1..Len(SecretNames)}] :
              \A i \in 1..k : \A j \in (i + 1)..k :
                  \E a, b \in 1..Len(SecretNames) :
                      a < b /\ fs[i].name = SecretNames[a] /\ fs[j].name = SecretNames[b]} :
           k \in 0..MaxFiles}

Namespaces == {"", "dev"}

\* types.Secret as client.GetSecretList returns it
Secret(name, namespace) == [Name |-> name, Namespace |-> namespace]

\* The secret lists the gateway may answer with.
SecretLists ==
    SUBSET {Secret("api-key", ""), Secret("api-key", "dev"), Secret("db-password", "")}

\* `faas-cli secret apply --namespace=.. --trim=..`
SecretApply(fs, existing, namespace, trim) ==
    /\ runs = 0
    /\ StartCommand("secret apply")
    /\ pc' = "secretApply"
    /\ secretFiles' = fs
    /\ existingSecrets' = existing
    /\ functionNamespace' = namespace
    /\ trimSecret' = trim
    /\ secretMap' = {}
    /\ fileIdx' = 0
    /\ gatewayCalls' = <<>>
    /\ UNCHANGED <<caller, params, stackLocals, missingLocals, otherLocals>>

\* A step of the loop as the log keeps it.
Call(i, op, name, outcome) == [file |-> i, op |-> op, name |-> name, outcome |-> outcome]

\* runSecretApply up to its loop: the client, the folder, os.ReadDir,
\* client.GetSecretList and the map of the names that exist
SecretSetup ==
    /\ pc = "secretApply"
    /\ \E err \in {Ok, ErrAuth, ErrClient, ErrSecretsFolder, ErrNoSecretsDir,
                    ErrReadSecretsDir, ErrSecretList} :
        IF err \in {ErrAuth, ErrClient, ErrSecretsFolder, ErrNoSecretsDir, ErrReadSecretsDir}
        THEN /\ result' = err /\ pc' = "idle"
             /\ UNCHANGED <<secretMap, fileIdx, gatewayCalls>>
        ELSE IF Len(secretFiles) = 0
        THEN /\ err = Ok
             /\ result' = Ok /\ pc' = "idle"
             /\ UNCHANGED <<secretMap, fileIdx, gatewayCalls>>
        ELSE IF err = ErrSecretList
        THEN /\ result' = err /\ pc' = "idle"
             /\ gatewayCalls' = Append(gatewayCalls, Call(0, "GetSecretList", "", "error"))
             /\ UNCHANGED <<secretMap, fileIdx>>
        ELSE /\ secretMap' = {secret.Name : secret \in
                                {x \in existingSecrets : x.Namespace = functionNamespace}}
             /\ fileIdx' = 1
             /\ pc' = "secretLoop"
             /\ gatewayCalls' = Append(gatewayCalls, Call(0, "GetSecretList", "", "ok"))
             /\ UNCHANGED result
    /\ UNCHANGED <<world, runs, command, caller, params, fetchLocals, moveLocals,
                   invoked, cacheBefore, history, stackLocals, missingLocals,
                   secretFiles, existingSecrets, functionNamespace, trimSecret, otherLocals>>

\* UpdateSecret called after every CreateSecret that did not create
NeedsUpdateUnlessCreated(status) == status # StatusCreated

\* runSecretApply: `if status == http.StatusConflict`
NeedsUpdate(status) == status = StatusConflict

\* The value runSecretApply makes of a file's bytes
SecretValue(fileData, trim) == IF trim THEN TrimSpace(fileData) ELSE fileData

\* runSecretApply: one turn of the loop over the entries of .secrets
ApplySecretFile ==
    /\ pc = "secretLoop"
    /\ fileIdx <= Len(secretFiles)
    /\ LET file == secretFiles[fileIdx]
           secretName == file.name
           secretValue == SecretValue(file.data, trimSecret)
           read(outcome) == <<Call(fileIdx, "os.ReadFile", secretName, outcome)>>
       IN
       IF file.isDir \/ ~validateSecretName(secretName)
       THEN UNCHANGED gatewayCalls
       ELSE \E readOk \in BOOLEAN :
            IF ~readOk
            THEN gatewayCalls' = gatewayCalls \o read("error")
            ELSE IF Len(secretValue) = 0
            THEN gatewayCalls' = gatewayCalls \o read("ok")
            ELSE \E removed \in {"ok", "error"}, status \in Statuses :
                 /\ secretName \notin secretMap => removed = "ok"
                 /\ gatewayCalls' = gatewayCalls \o read("ok")
                        \o (IF secretName \in secretMap
                            THEN <<Call(fileIdx, "RemoveSecret", secretName, removed)>>
                            ELSE <<>>)
                        \o <<Call(fileIdx, "CreateSecret", secretName, status)>>
                        \o (IF NeedsUpdate(status)
                            THEN <<Call(fileIdx, "UpdateSecret", secretName, "called")>>
                            ELSE <<>>)
    /\ fileIdx' = fileIdx + 1
    /\ UNCHANGED <<world, control, params, fetchLocals, moveLocals, ghost, stackLocals,
                   missingLocals, secretFiles, existingSecrets, secretMap,
                   functionNamespace, trimSecret, otherLocals>>

\* runSecretApply: the loop is over, return nil
SecretDone ==
    /\ pc = "secretLoop"
    /\ fileIdx > Len(secretFiles)
    /\ pc' = "idle"
    /\ result' = Ok
    /\ UNCHANGED <<world, runs, command, caller, params, fetchLocals, moveLocals,
                   invoked, cacheBefore, history, stackLocals, missingLocals, secretLocals, otherLocals>>

\* The command line runs `secret apply` on any .secrets folder and gateway.
RunSecretApply ==
    /\ pc = "idle"
    /\ runs = 0
    /\ \E fs \in SecretFolders, existing \in SecretLists, namespace \in Namespaces,
          trim \in BOOLEAN :
         SecretApply(fs, existing, namespace, trim)

SecretNext ==
    \/ RunSecretApply
    \/ SecretSetup
    \/ ApplySecretFile
    \/ SecretDone

\* secret apply does not read the template cache: one cache stands for all.
SecretInit ==
    /\ Init
    /\ cache = [n \in Range(CacheNames) |-> Absent]
    /\ tree = NoTemplateDir

SecretSpec == SecretInit /\ [][SecretNext]_vars

\* -------------------------------------------------------- concurrent runs

\* The bundle a concurrent run of another repository writes.
OtherBundle == Dir("other", <<TemplateMeta(<<"other">>, <<>>, "sha:other", now)>>)

\* A concurrent run with overwrite=false, of a repository that holds the same
\* language names and no ref: its moveTemplates reads the cache's entries
OtherMoveRead ==
    /\ otherIdx = 0
    /\ otherExisting' = ExistingDirs(cache)
    /\ otherIdx' = 1
    /\ UNCHANGED <<world, control, params, fetchLocals, moveLocals, ghost, stackLocals,
                   missingLocals, secretLocals, otherFetched>>

\* ... and one turn of its loop over extractedTemplates
OtherMoveEntry ==
    /\ otherIdx >= 1
    /\ otherIdx <= Len(tree.entries)
    /\ LET entry == tree.entries[otherIdx]
           language == entry.name
       IN
       IF entry.isDir /\ canWriteLanguage(otherExisting, language, FALSE)
       THEN /\ otherFetched' = Append(otherFetched, language)
            /\ IF CopyFilesFails(cache, language)
               THEN otherIdx' = Len(tree.entries) + 1 /\ UNCHANGED cache
               ELSE /\ otherIdx' = otherIdx + 1
                    /\ cache' = [cache EXCEPT ![language] = OtherBundle]
       ELSE /\ otherIdx' = otherIdx + 1
            /\ UNCHANGED <<cache, otherFetched>>
    /\ UNCHANGED <<tree, now, control, params, fetchLocals, moveLocals, ghost, stackLocals,
                   missingLocals, secretLocals, otherExisting>>

\* One `template pull --overwrite=false` while the other run goes on.
RunConcurrentPull ==
    /\ pc = "idle"
    /\ runs = 0
    /\ \E repo \in {Remote, Pin(Remote, RefBranch)} : TemplatePull(repo, FALSE, FALSE)

ConcurrentNext ==
    \/ RunConcurrentPull
    \/ PullSteps
    \/ OtherMoveRead
    \/ OtherMoveEntry

ConcurrentSpec == Init /\ [][ConcurrentNext]_vars

\* ------------------------------------------------------------- properties

\* The candidate bundles: the directories of the retrieved template root.
Candidates == {tree.entries[i] : i \in {j \in 1..Len(tree.entries) : tree.entries[j].isDir}}

\* The names of the bundle directories the cache held when the pull began.
ExistingBefore == Range(ExistingDirs(cacheBefore))

\* A pull has returned to the command line.
PullReturned == pc = "idle" /\ command = "pull"

\* ... and its moveTemplates ran to its end and returned a nil error.
PullReconciled == PullReturned /\ result \in {Ok, ErrProtected}

\* The retrieved tree has a candidate whose name is a directory of the cache
\* and a candidate whose name is not.
SomePresentSomeAbsent ==
    /\ \E e \in Candidates : e.name \in ExistingBefore
    /\ \E e \in Candidates : e.name \notin ExistingBefore

\* What the log of invoked tools says was written by moveTemplates.
WriteTargets ==
    {invoked[i][2] : i \in {j \in 1..Len(invoked) : invoked[j][1] \in {"CopyFiles", "os.WriteFile"}}}

\* C1: a pull with overwrite=false never changes a bundle directory that the
\* cache held before the call, whatever the ref, and no CopyFiles or meta.json
\* write targets a name that was a bundle directory before the call.
C1_ExistingBundlesUntouched ==
    (command = "pull" /\ ~overwriteTemplates) =>
        \A n \in DOMAIN cache :
            cacheBefore[n].kind = "dir" => cache[n] = cacheBefore[n] /\ n \notin WriteTargets

C3_RepeatedPull ==
    (PullReturned /\ repository \in pulled) =>
        IF overwriteTemplates THEN result \in {Ok} \cup ToolErrors ELSE result # Ok

\* C4: a reconciliation with overwrite=true that returns without error
\* protects nothing, and every candidate's destination then is a directory
\* with the retrieved bundle's files, whether it existed before or not.
C4_OverwriteReplacesAll ==
    (PullReconciled /\ overwriteTemplates) =>
        /\ protectedLanguages = <<>>
        /\ result = Ok
        /\ \A e \in Candidates :
            LET dest == DestName(e.name, refName) IN
            /\ cache[dest].kind = "dir"
            /\ cache[dest].files = e.files
            /\ dest \in Range(fetchedLanguages)

\* C4's case: an overwriting pull replaced a bundle that existed and wrote
\* one that did not.
C4_Witness ==
    /\ PullReconciled /\ overwriteTemplates
    /\ cacheBefore[Py] = OldBundle /\ cacheBefore[Node] = Absent
    /\ refName = <<>>
    /\ cache[Py].files = "py" /\ cache[Node].files = "node"

\* getMissingTemplates has returned.
MissingReturned == pc = "idle" /\ command = "missing"

\* L: the languages the functions declare.
DeclaredLanguages == {functions[f] : f \in DOMAIN functions}

\* C: the names of the bundle directories of the cache.
CacheBundles == {n \in DOMAIN cache : cache[n].kind = "dir"}

\* C5: the set of the names getMissingTemplates returns is L minus C: every
\* declared language with no same-named directory in the cache, and no
\* language that has one.
C5_MissingIsDifference ==
    MissingReturned => Range(missing) = DeclaredLanguages \ CacheBundles

\* C6: getMissingTemplates returns no name twice.
C6_MissingNoDuplicates ==
    MissingReturned => \A i, j \in 1..Len(missing) : missing[i] = missing[j] => i = j

\* The ref the pull's repository argument pins.
PinnedRef == ParsePinnedRemote(repository).refName

CloneCommands == {"GitCloneDefault", "GitCloneBranch", "GitCloneFullDepth"}

\* C7: a pull whose ref is sha- followed by anything but 7 to 40 hex digits
\* never invokes the clone, and returns the invalid-SHA error (or, before
\* that, fails to create its temporary directory).
C7_InvalidShaNeverClones ==
    (command = "pull" /\ HasPrefix(PinnedRef, ShaPrefix)
        /\ ~ValidShaFormat(TrimPrefix(PinnedRef, ShaPrefix))) =>
        /\ \A i \in 1..Len(invoked) : invoked[i][1] \notin CloneCommands
        /\ pc = "idle" => result \in {ErrInvalidSha, ErrMkdirTemp}

\* pullStackTemplates has returned.
StackReturned == pc = "idle" /\ command = "stack"

HasSourceURL(name) ==
    \E j \in 1..Len(templateSources) :
        templateSources[j].Name = name /\ templateSources[j].Source # <<>>

\* The names the central store was called for.
StoreCalls ==
    {invoked[i][2] : i \in {j \in 1..Len(invoked) : invoked[j][1] = "runTemplateStorePull"}}

\* C9 as stated: a name that some source names with a non-empty URL is pulled
\* from that repository and not from the store; any other name goes to the
\* store and no repository is pulled.
C9_RoutedByAnyMatch ==
    command = "stack" =>
        \A i \in 1..Len(routed) :
            IF HasSourceURL(routed[i].name)
            THEN /\ routed[i].via = "pullTemplate"
                 /\ \E j \in 1..Len(templateSources) :
                        /\ templateSources[j].Name = routed[i].name
                        /\ templateSources[j].Source = routed[i].source
            ELSE routed[i].via = "store"

\* The index of the first source named `name`, 0 when there is none.
FirstSource(name) ==
    IF \E j \in 1..Len(templateSources) : templateSources[j].Name = name
    THEN CHOOSE j \in 1..Len(templateSources) :
            /\ templateSources[j].Name = name
            /\ \A k \in 1..(j - 1) : templateSources[k].Name # name
    ELSE 0

\* C9 amended: the first source in list order whose name equals the missing
\* name decides: if it has a non-empty URL the name is pulled from that URL
\* (pullTemplate with that repository and that template name) and not from the
\* store; if it has an empty source, or no source has that name, the name goes
\* to the store and no repository is pulled for it.
C9_RoutedByFirstMatch ==
    command = "stack" =>
        \A i \in 1..Len(routed) :
            LET name == routed[i].name
                first == FirstSource(name)
                byURL == first # 0 /\ templateSources[first].Source # <<>>
            IN
            IF byURL
            THEN /\ routed[i].via = "pullTemplate"
                 /\ routed[i].source = templateSources[first].Source
                 /\ (i = Len(routed) /\ pc \notin {"idle", "stackLoop"}) =>
                        /\ repository = templateSources[first].Source
                        /\ templateName = name
                 /\ (\A k \in 1..Len(routed) : routed[k].name = name => k = i) =>
                        name \notin StoreCalls
            ELSE /\ routed[i].via = "store"
                 /\ name \in StoreCalls
                 /\ (i = Len(routed) /\ Len(routed) = 1) =>
                        \A k \in 1..Len(invoked) : invoked[k][1] = "runTemplateStorePull"

\* C9's case: two sources share the name, the first has no URL, and the name
\* went to the store.
C9_Witness ==
    /\ StackReturned
    /\ Len(routed) >= 1
    /\ HasSourceURL(routed[1].name)
    /\ templateSources[FirstSource(routed[1].name)].Source = <<>>
    /\ routed[1].via = "store"

\* The language a stack pull was asked for: its template name up to a "#".
RequestedLanguage == Cut(templateName).before

\* C10: a stack pull for template N reconciles only the bundle named N: no
\* other cache entry changes, and no other name is written or protected.
C10_OnlyRequestedBundle ==
    (command = "stack" /\ pc \in {"moveEntry", "stackResume"}) =>
        LET dest == DestName(RequestedLanguage, refName) IN
        /\ \A n \in DOMAIN cache : n # dest => cache[n] = cacheBefore[n]
        /\ Range(fetchedLanguages) \subseteq {dest}
        /\ Range(protectedLanguages) \subseteq {dest}

\* ------------------------------------------------- the temporary directory

\* os.MkdirTemp succeeded in the running (or returned) fetchTemplates.
TempDirCreated ==
    /\ \E i \in 1..Len(invoked) : invoked[i][1] = "os.MkdirTemp"
    /\ result # ErrMkdirTemp

\* The number of os.RemoveAll calls of the command.
RemoveAllCalls == Cardinality({i \in 1..Len(invoked) : invoked[i][1] = "os.RemoveAll"})

\* The errors of the exit paths of fetchTemplates after os.MkdirTemp.
ExitsAfterMkdirTemp ==
    {Ok, ErrClone, ErrInvalidSha, ErrCheckout, ErrGitLog, ErrGetSha, ErrGetwd,
     ErrMkdirCache, ErrReadDir, ErrTemplateYml, ErrNoTemplates, ErrCopyFiles,
     ErrWriteMeta, ErrProtected}

\* C11: once fetchTemplates has created its temporary directory, the directory
\* exists while fetchTemplates runs; with --debug off it is removed, by exactly
\* one os.RemoveAll, on every return (success, clone, checkout, invalid SHA,
\* digest resolution, reconcile and protected-bundle errors); with --debug on
\* it is never removed.
C11_TempDirRemoved ==
    (command = "pull" /\ TempDirCreated) =>
        /\ pc # "idle" => extractedPath = "exists" /\ RemoveAllCalls = 0
        /\ pc = "idle" =>
            /\ result \in ExitsAfterMkdirTemp
            /\ IF pullDebug
               THEN extractedPath = "exists" /\ RemoveAllCalls = 0
               ELSE extractedPath = "removed" /\ RemoveAllCalls = 1
                    /\ invoked[Len(invoked)][1] = "os.RemoveAll"

\* C11's case: a pull without --debug cloned, failed at the digest's format
\* and removed its temporary directory.
C11_Witness ==
    /\ PullReturned /\ ~pullDebug /\ TempDirCreated
    /\ result = ErrInvalidSha
    /\ extractedPath = "removed"

\* ---------------------------------------------------- invalid repositories

\* The base location of the pull: its repository up to a "#".
BaseLocation == Cut(repository).before

\* The base location is no path that exists and no git remote address.
InvalidBaseLocation ==
    /\ ~isValidFilesystemPath(BaseLocation)
    /\ ~IsGitRemote(BaseLocation)
    /\ ~IsPinnedGitRemote(BaseLocation)

\* C12: a pull whose base location is neither an existing path nor a git
\* remote address returns "the repository URL must be a valid git repo uri"
\* from pullTemplate's first step, having invoked no tool (no ref check, no
\* temporary directory, no clone) and with the cache as it was.
C12_InvalidRepositoryRejected ==
    (command = "pull" /\ InvalidBaseLocation /\ pc # "pullTemplate") =>
        /\ pc = "idle"
        /\ result = ErrInvalidRepo
        /\ invoked = <<>>
        /\ extractedPath = "none"
        /\ cache = cacheBefore
        /\ fetchedLanguages = <<>> /\ protectedLanguages = <<>>

\* C12's case: the pull of a pinned address that is no git remote returned.
C12_Witness ==
    /\ PullReturned
    /\ repository = Pin(BadRemote, RefBranch)
    /\ result = ErrInvalidRepo
    /\ invoked = <<>>

\* ------------------------------------------------- failed provenance writes

\* The provenance record a write of the running pull leaves.
MetaOfThisPull == <<TemplateMeta(templateURL, refName, sha, now)>>

\* The candidates moveTemplates approves, by the cache the pull found.
Approved ==
    {e \in Candidates :
        canWriteLanguage(ExistingDirs(cacheBefore), e.name, overwriteTemplates)}

\* The cache the pull found holds no regular file where a bundle would go.
NoRegularFiles == \A n \in DOMAIN cacheBefore : cacheBefore[n].kind # "file"

MetaWrites == SelectSeq(invoked, LAMBDA call : call[1] = "os.WriteFile")

\* C14: after a reconciliation that returns without error, every bundle of
\* the written list is a directory of the cache with one provenance record,
\* which carries the repository address, the ref and the resolved digest of
\* this pull, and the call wrote as many records as bundles: one per written
\* bundle, in the order of the written list.
C14_WrittenBundlesHaveMeta ==
    PullReconciled =>
        /\ Len(MetaWrites) = Len(fetchedLanguages)
        /\ \A i \in 1..Len(fetchedLanguages) :
            LET dest == fetchedLanguages[i] IN
            /\ MetaWrites[i][2] = dest
            /\ cache[dest].kind = "dir"
            /\ Len(cache[dest].meta) = 1
            /\ cache[dest].meta[1].repository = ParsePinnedRemote(repository).remoteURL
            /\ cache[dest].meta[1].ref_name = PinnedRef
            /\ cache[dest].meta[1].sha = ResolvedSha(PinnedRef)
            /\ cache[dest].meta[1].sha # ""

\* C14's case: empty cache, candidates node and py, overwrite=false: two
\* written, none protected, two records.
C14_Witness ==
    /\ PullReconciled /\ ~overwriteTemplates
    /\ \A n \in DOMAIN cacheBefore : cacheBefore[n] = Absent
    /\ fetchedLanguages = <<Node, Py>>
    /\ protectedLanguages = <<>>
    /\ Len(MetaWrites) = 2
    /\ cache[Node].meta # NoMeta /\ cache[Py].meta # NoMeta

\* ------------------------------------------------------------- idempotence

\* The pull that returned is the second of two in a row with the same
\* repository and ref, both with overwrite=true, both reconciled without error.
SecondOfTwoOverwrites ==
    /\ PullReconciled /\ overwriteTemplates
    /\ lastPull = repository

\* A cache without the written_at of its provenance records.
WithoutWrittenAt(c) ==
    [n \in DOMAIN c |->
        [c[n] EXCEPT !.meta =
            [i \in 1..Len(c[n].meta) |-> [c[n].meta[i] EXCEPT !.written_at = 0]]]]

\* C15 as stated: the second of two identical overwriting reconciliations
\* leaves the cache, provenance records included, as the first left it.
C15_SecondRunIdentical ==
    SecondOfTwoOverwrites => cache = cacheBefore

\* C15 amended: the second of two identical overwriting reconciliations
\* leaves every bundle's files, and the repository, ref and digest of every
\* provenance record, as the first left them; the written_at of every
\* candidate's record is that of the second run, later than the first's.
C15_SecondRunIdenticalButWrittenAt ==
    SecondOfTwoOverwrites =>
        /\ WithoutWrittenAt(cache) = WithoutWrittenAt(cacheBefore)
        /\ \A e \in Candidates :
            LET dest == DestName(e.name, refName) IN
            /\ cache[dest].meta[1].written_at = now
            /\ cacheBefore[dest].meta[1].written_at < now

\* C15's case: py was written by both runs and only its written_at differs.
C15_Witness ==
    /\ SecondOfTwoOverwrites
    /\ refName = <<>>
    /\ cache[Py].kind = "dir" /\ cache[Py].files = "py"
    /\ cache[Py] # cacheBefore[Py]
    /\ cacheBefore[Py].meta # NoMeta

\* ------------------------------------------------------ template pull stack

\* `template pull stack` has returned.
PullStackReturned == pc = "idle" /\ command = "pull stack"

\* The declared languages that os.Stat did not find when the command began.
MissingBefore == {l \in DeclaredLanguages : StatNotExist(cacheBefore, l)}

\* C16: the work list `template pull stack` hands to pullStackTemplates
\* holds the declared languages that were missing from the cache, and after a
\* run that returned nil every one of them is a bundle of the cache.
C16_StackPullsMissing ==
    /\ (command = "pull stack" /\ pc = "stackLoop") =>
          Range(missingTemplates) = MissingBefore
    /\ (PullStackReturned /\ result = Ok) =>
          \A l \in MissingBefore : cache[l].kind = "dir"

\* ------------------------------------------------------------ secret apply

\* `secret apply` has returned.
SecretReturned == pc = "idle" /\ command = "secret apply"

\* What the loop did for the i-th entry of .secrets, in order.
CallsOf(i) == SelectSeq(gatewayCalls, LAMBDA c : c.file = i)

\* The gateway's list holds the name in the namespace of the command.
InGatewayList(name) ==
    \E secret \in existingSecrets :
        secret.Name = name /\ secret.Namespace = functionNamespace

\* client.GetSecretList succeeded: the loop was entered.
LoopEntered ==
    \E k \in 1..Len(gatewayCalls) :
        gatewayCalls[k].op = "GetSecretList" /\ gatewayCalls[k].outcome = "ok"

\* The gateway calls for the i-th entry follow the protocol: RemoveSecret
\* first if and only if the name was listed, then CreateSecret whatever
\* RemoveSecret returned, then UpdateSecret if and only if CreateSecret
\* returned the conflict status, and nothing else.
ProtocolFollowed(i) ==
    LET cs == Tail(CallsOf(i))
        pre == IF InGatewayList(secretFiles[i].name) THEN 1 ELSE 0
    IN
    /\ Len(cs) >= pre + 1
    /\ pre = 1 => cs[1].op = "RemoveSecret"
    /\ cs[pre + 1].op = "CreateSecret"
    /\ Len(cs) = pre + 1 + (IF cs[pre + 1].outcome = StatusConflict THEN 1 ELSE 0)
    /\ Len(cs) = pre + 2 => cs[pre + 2].op = "UpdateSecret"
    /\ \A k \in 1..Len(cs) : cs[k].name = secretFiles[i].name

\* C17: secret apply reads every regular file of .secrets that has a valid
\* name, whatever happened to the files before it, and handles each one whose
\* value is not empty by the protocol; once the loop is entered the command
\* visits every entry, in order, and returns nil.
C17_SecretProtocol ==
    command = "secret apply" =>
        /\ \A i \in 1..(fileIdx - 1) :
            LET file == secretFiles[i] IN
            (~file.isDir /\ validateSecretName(file.name)) =>
                /\ Len(CallsOf(i)) >= 1
                /\ CallsOf(i)[1].op = "os.ReadFile"
                /\ (CallsOf(i)[1].outcome = "ok"
                        /\ Len(SecretValue(file.data, trimSecret)) > 0) =>
                       ProtocolFollowed(i)
        /\ \A k, l \in 1..Len(gatewayCalls) :
            k < l => gatewayCalls[k].file <= gatewayCalls[l].file
        /\ (SecretReturned /\ LoopEntered) =>
            result = Ok /\ fileIdx = Len(secretFiles) + 1

\* C17's case: api-key was listed, its RemoveSecret failed and its
\* CreateSecret failed too; db-password, the next file, was still created,
\* met a conflict and was updated.
C17_Witness ==
    /\ SecretReturned /\ LoopEntered
    /\ Len(secretFiles) = 2
    /\ InGatewayList(secretFiles[1].name)
    /\ \E k \in 1..Len(gatewayCalls) :
        /\ gatewayCalls[k] = Call(1, "RemoveSecret", "api-key", "error")
        /\ gatewayCalls[k + 1] = Call(1, "CreateSecret", "api-key", StatusInternalServerError)
    /\ \E k \in 1..Len(gatewayCalls) :
        /\ gatewayCalls[k] = Call(2, "CreateSecret", "db-password", StatusConflict)
        /\ gatewayCalls[k + 1] = Call(2, "UpdateSecret", "db-password", "called")

\* ------------------------------------------------------------ pinned pulls

\* name is <language>@ref for a candidate language of the retrieved tree.
SuffixedWith(name, ref) ==
    /\ Len(name) > Len(ref) + 1
    /\ SubSeq(name, Len(name) - Len(ref) + 1, Len(name)) = ref
    /\ name[Len(name) - Len(ref)] = "@"
    /\ \E e \in Candidates : e.name = SubSeq(name, 1, Len(name) - Len(ref) - 1)

\* C18: a pull with a non-empty ref R writes, and reports as written or as
\* protected, only names <language>@R, and leaves every other entry of the
\* cache, the unsuffixed <language> among them, as it found it.
C18_PinnedPullWritesSuffixed ==
    (command = "pull" /\ PinnedRef # <<>> /\ pc \notin {"pullTemplate"}) =>
        /\ \A n \in WriteTargets : SuffixedWith(n, PinnedRef)
        /\ \A n \in Range(fetchedLanguages) \cup Range(protectedLanguages) :
              SuffixedWith(n, PinnedRef)
        /\ \A n \in DOMAIN cache :
              ~SuffixedWith(n, PinnedRef) => cache[n] = cacheBefore[n]
        /\ \A l \in Languages : cache[l] = cacheBefore[l]

\* C18's case: with py in the cache, a pull pinned to v1 wrote py@v1 and
\* reported it, and py is as it was.
C18_Witness ==
    /\ PullReturned /\ result = Ok
    /\ PinnedRef = RefBranch
    /\ cacheBefore[Py] = OldBundle /\ cache[Py] = OldBundle
    /\ cacheBefore[DestName(Py, RefBranch)] = Absent
    /\ cache[DestName(Py, RefBranch)].files = "py"
    /\ DestName(Py, RefBranch) \in Range(fetchedLanguages)

\* ------------------------------------------------------ the retrieval path

\* The positions in the log of the calls of the tools `ops`.
CallsAt(ops) == {i \in 1..Len(invoked) : invoked[i][1] \in ops}

\* The ref is a commit digest: it starts with sha-.
IsShaRef(ref) == Len(ref) >= Len(ShaPrefix) /\ SubSeq(ref, 1, Len(ShaPrefix)) = ShaPrefix

\* C19: fetchTemplates invokes one clone, picked by the ref alone: the
\* default clone for no ref, the branch clone with that ref for a ref without
\* sha-, the full-depth clone for a sha- ref.  git checkout runs for a sha-
\* ref only, once, for the digest, after the clone and only if the clone
\* succeeded.  Nothing is copied into the cache before the clone, the
\* checkout of a sha- ref and GetGitSHAFor have all succeeded, in that order.
C19_RetrievalPathByRef ==
    command = "pull" =>
        LET clones == CallsAt(CloneCommands)
            checkouts == CallsAt({"git checkout"})
            resolves == CallsAt({"GetGitSHAFor"})
            writes == CallsAt({"CopyFiles", "os.WriteFile"})
        IN
        /\ Cardinality(clones) <= 1
        /\ \A i \in clones :
            /\ invoked[i][2] = templateURL
            /\ IF refName = <<>>
               THEN invoked[i][1] = "GitCloneDefault" /\ invoked[i][3] = <<>>
               ELSE IF IsShaRef(refName)
               THEN invoked[i][1] = "GitCloneFullDepth" /\ invoked[i][3] = <<>>
               ELSE invoked[i][1] = "GitCloneBranch" /\ invoked[i][3] = refName
        /\ ~IsShaRef(refName) => checkouts = {}
        /\ Cardinality(checkouts) <= 1
        /\ \A j \in checkouts :
            /\ invoked[j][2] = SubSeq(refName, Len(ShaPrefix) + 1, Len(refName))
            /\ \E i \in clones : i < j
            /\ result # ErrClone
        /\ (writes # {} \/ cache # cacheBefore) =>
            /\ sha # ""
            /\ result \notin {ErrClone, ErrInvalidSha, ErrCheckout, ErrGitLog, ErrGetSha}
            /\ \E i \in clones : \E k \in resolves :
                /\ i < k
                /\ \A w \in writes : k < w
                /\ IsShaRef(refName) => \E j \in checkouts : i < j /\ j < k

\* C19's case: a pull pinned to a digest cloned at full depth, checked the
\* digest out, resolved it and then wrote py.
C19_Witness ==
    /\ PullReturned /\ result = Ok
    /\ refName = ShaGood
    /\ CallsAt({"GitCloneFullDepth"}) # {} /\ CallsAt({"git checkout"}) # {}
    /\ cache # cacheBefore
    /\ cache[DestName(Py, ShaGood)].files = "py"

\* ---------------------------------------------------------- check then write

\* C20: moveTemplates decides on the listing it read before its loop and
\* never looks again: every candidate the loop has passed was written if the
\* listing did not hold its name (or overwrite was set) and protected if it
\* did, whatever a concurrent run has put into the cache since the listing.
C20_DecidedOnListing ==
    (command = "pull" /\ pc \in {"moveEntry", "idle"}) =>
        \A j \in 1..(entryIdx - 1) :
            LET entry == tree.entries[j]
                dest == DestName(entry.name, refName)
            IN
            entry.isDir =>
                IF overwriteTemplates \/ entry.name \notin Range(existingLanguages)
                THEN dest \in Range(fetchedLanguages)
                     /\ dest \notin Range(protectedLanguages)
                ELSE dest \in Range(protectedLanguages)
                     /\ dest \notin Range(fetchedLanguages)

\* C20's case: with overwrite=false the run listed the cache without py, the
\* concurrent run then created py, and the run wrote its own py over it.
C20_Witness ==
    /\ command = "pull" /\ ~overwriteTemplates
    /\ refName = <<>>
    /\ ~Contains(existingLanguages, Py)
    /\ Contains(otherFetched, Py)
    /\ Contains(fetchedLanguages, Py)
    /\ cache[Py] = Dir("py", <<TemplateMeta(templateURL, refName, sha, now)>>)

\* ---------------------------------------------------- the two returned lists

\* The indexes at which `list` holds `name`.
Occurrences(list, name) == {i \in 1..Len(list) : list[i] = name}

\* The name moveTemplates reports for a language: <language>, or
\* <language>@<ref> when the pull has a ref.
ReportedName(language, ref) == IF ref = <<>> THEN language ELSE language \o <<"@">> \o ref

\* C21: when moveTemplates has returned without error, every directory of the
\* retrieved template root is, under its ref-suffixed name, once in exactly
\* one of the written and the protected list; an entry that is no directory
\* is in neither; the lists are disjoint and together as long as the
\* directories are many.
C21_ListsPartitionCandidates ==
    PullReconciled =>
        /\ \A i \in 1..Len(tree.entries) :
            LET entry == tree.entries[i]
                name == ReportedName(entry.name, PinnedRef)
                written == Cardinality(Occurrences(fetchedLanguages, name))
                protected == Cardinality(Occurrences(protectedLanguages, name))
            IN
            IF entry.isDir
            THEN written + protected = 1
            ELSE written + protected = 0
        /\ Range(fetchedLanguages) \cap Range(protectedLanguages) = {}
        /\ Len(fetchedLanguages) + Len(protectedLanguages) =
               Cardinality({i \in 1..Len(tree.entries) : tree.entries[i].isDir})

\* C21's case: the template root holds the file node and the directory py;
\* a pull pinned to v1 returned with py@v1 written and node in neither list.
C21_Witness ==
    /\ PullReconciled
    /\ PinnedRef = RefBranch
    /\ tree = Tree(<<TreeFile(Node), TreeDir(Py)>>)
    /\ fetchedLanguages = <<ReportedName(Py, RefBranch)>>
    /\ protectedLanguages = <<>>

\* -------------------------------------------------- writes before an error

\* The bundle the running pull leaves for an entry it copied and recorded.
WrittenBundle(entry) == Dir(entry.files, <<TemplateMeta(templateURL, refName, sha, now)>>)

\* C22: an error from fetchTemplates can leave the cache changed.  When it
\* returns "unable to overwrite the following", every candidate that is not in
\* the protected list is in the cache with the retrieved files and its
\* meta.json; when a copy or a meta.json write fails, every candidate the loop
\* approved before the failing one is.
C22_WritesSurviveError ==
    /\ (PullReturned /\ result = ErrProtected) =>
          \A e \in Candidates :
              LET dest == DestName(e.name, refName) IN
              dest \notin Range(protectedLanguages) =>
                  dest \in Range(fetchedLanguages) /\ cache[dest] = WrittenBundle(e)
    /\ (PullReturned /\ result \in {ErrCopyFiles, ErrWriteMeta}) =>
          /\ entryIdx \in 1..Len(tree.entries)
          /\ \A j \in 1..(entryIdx - 1) :
              LET e == tree.entries[j]
                  dest == DestName(e.name, refName)
              IN
              (e.isDir /\ dest \notin Range(protectedLanguages)) =>
                  dest \in Range(fetchedLanguages) /\ cache[dest] = WrittenBundle(e)

\* C22's case: node was copied and recorded, then the copy of py failed on
\* the regular file py; the pull returned the copy's error and node is in the
\* cache, which the pull had found without it.
C22_Witness ==
    /\ PullReturned /\ result = ErrCopyFiles
    /\ refName = <<>>
    /\ entryIdx = 2
    /\ cacheBefore[Node] = Absent /\ cacheBefore[Py] = RegularFile
    /\ cache[Node] = WrittenBundle(TreeDir(Node))
    /\ cache[Py] = RegularFile
    /\ cache # cacheBefore

\* ------------------------------------------- protection of a pinned bundle

\* C23: in a pull with overwrite=false and a ref R, a candidate the loop has
\* passed is protected (reported as <language>@R and not written) exactly
\* when the cache held the unsuffixed directory <language>, and written to
\* <language>@R exactly when it did not, whether or not <language>@R was
\* there.
C23_ProtectedByUnsuffixedName ==
    (command = "pull" /\ ~overwriteTemplates /\ PinnedRef # <<>>
        /\ pc \in {"moveEntry", "idle"}) =>
        \A j \in 1..(entryIdx - 1) :
            LET e == tree.entries[j]
                dest == ReportedName(e.name, PinnedRef)
                unsuffixed == cacheBefore[e.name].kind = "dir"
            IN
            e.isDir =>
                /\ (dest \in Range(protectedLanguages)) <=> unsuffixed
                /\ (dest \in Range(fetchedLanguages)) <=> ~unsuffixed
                /\ unsuffixed => cache[dest] = cacheBefore[dest]
                /\ ~unsuffixed => dest \in WriteTargets

\* C23's case: the cache held py@v1 and no py; the pull pinned to v1 with
\* overwrite=false did not protect py@v1 and wrote over it.
C23_Witness ==
    /\ PullReturned /\ result = Ok /\ ~overwriteTemplates
    /\ PinnedRef = RefBranch
    /\ cacheBefore[Py] = Absent
    /\ cacheBefore[ReportedName(Py, RefBranch)] = OldBundle
    /\ protectedLanguages = <<>>
    /\ cache[ReportedName(Py, RefBranch)].files = "py"

====
